---- MODULE Spec2Model ----
(***************************************************************************)
(* Model of spelling_roots_game.py: the etymology resolution pipeline      *)
(* (local CSV database, offline root hints, optional Wiktionary lookup),   *)
(* the root matcher ROOT_REGEX and extract_etymology_sections.             *)
(*                                                                         *)
(* Python strings are sequences of one-character strings, so that          *)
(* lower(), capitalize(), strip(), re.sub and the regular expressions are  *)
(* computed character by character.                                        *)
(***************************************************************************)
EXTENDS Integers, Sequences, FiniteSets, TLC

VARIABLES
    dbFile,       \* records of etymology_db.csv as csv.DictReader yields them
    local_rows,   \* local_rows of the last script run
    word,         \* text of the "Enter a word" input of the last Explain click
    use_online,   \* the sidebar toggle of the last Explain click
    w,            \* clean_word(word)
    pc,           \* "idle", or the network call fetch_etymology_html makes next
    cand,         \* index of the next candidate title in fetch_etymology_html
    outcome,      \* which message the last run ended with
    found_row,    \* <<row>> shown from the local database, or <<>>
    matches,      \* the sorted root hints of the last run
    calls,        \* requests.get calls of the last run, in order
    html,         \* <<page>> returned by fetch_etymology_html, or <<>> for None
    title,        \* <<title>> chosen by wiktionary_opensearch, or <<>> for None
    sections,     \* extract_etymology_sections(html) of the last run
    rword,        \* root matcher alone: the word given to ROOT_REGEX.finditer
    rhits,        \* root matcher alone: sorted(set(... lower() ...))
    rdone,        \* root matcher alone: whether rhits has been computed
    doc,          \* section extractor alone: the parsed document
    doc_sections, \* section extractor alone: extract_etymology_sections(doc)
    xdone         \* section extractor alone: whether doc_sections was computed

vars == <<dbFile, local_rows, word, use_online, w, pc, cand, outcome, found_row,
          matches, calls, html, title, sections, rword, rhits, rdone, doc,
          doc_sections, xdone>>

pipelineVars == <<dbFile, local_rows, word, use_online, w, pc, cand, outcome,
                  found_row, matches, calls, html, title, sections>>
rootVars == <<rword, rhits, rdone>>
extractVars == <<doc, doc_sections, xdone>>

----------------------------------------------------------------------------
(* Bounds *)

\* longest word given to the root matcher alone
MaxWordLen == 4
\* most blocks in a document given to the section extractor alone
MaxBlocks == 4
\* most records in etymology_db.csv and in an uploaded CSV
MaxRows == 2
\* most titles in an opensearch answer
MaxTitles == 2

----------------------------------------------------------------------------
(* Characters *)

LowerChars == <<"a","b","c","d","e","f","g","h","i","j","k","l","m",
                "n","o","p","q","r","s","t","u","v","w","x","y","z">>
UpperChars == <<"A","B","C","D","E","F","G","H","I","J","K","L","M",
                "N","O","P","Q","R","S","T","U","V","W","X","Y","Z">>
DigitChars == <<"0","1","2","3","4","5","6","7","8","9">>

Range(s) == { s[i] : i \in 1..Len(s) }

LowerSet == Range(LowerChars)
UpperSet == Range(UpperChars)
DigitSet == Range(DigitChars)

IsLower(c) == c \in LowerSet
IsUpper(c) == c \in UpperSet
IsAsciiLetter(c) == IsLower(c) \/ IsUpper(c)
IsSpace(c) == c \in {" ", "\t", "\n"}

\* code point order of the characters the model uses
AsciiOrder == <<"\t", "\n", " ", "'", "-">> \o DigitChars \o UpperChars \o <<"_">> \o LowerChars

CodePoint == [c \in Range(AsciiOrder) |-> CHOOSE i \in 1..Len(AsciiOrder) : AsciiOrder[i] = c]

CharOrd(c) == CodePoint[c]

ToLower == [c \in UpperSet |-> LowerChars[CHOOSE i \in 1..26 : UpperChars[i] = c]]
ToUpper == [c \in LowerSet |-> UpperChars[CHOOSE i \in 1..26 : LowerChars[i] = c]]

LowerChar(c) == IF IsUpper(c) THEN ToLower[c] ELSE c

UpperChar(c) == IF IsLower(c) THEN ToUpper[c] ELSE c

\* str.lower()
Lower(s) == [i \in 1..Len(s) |-> LowerChar(s[i])]

\* str.capitalize(): first character upper-cased, the rest lower-cased
Capitalize(s) == [i \in 1..Len(s) |-> IF i = 1 THEN UpperChar(s[i]) ELSE LowerChar(s[i])]

\* str.strip(): leading and trailing whitespace removed
Strip(s) ==
    LET keep == { i \in 1..Len(s) : ~IsSpace(s[i]) }
    IN  IF keep = {} THEN <<>>
        ELSE LET lo == CHOOSE i \in keep : \A j \in keep : i <= j
                 hi == CHOOSE i \in keep : \A j \in keep : j <= i
             IN  SubSeq(s, lo, hi)

\* the character class [A-Za-z\-\'] of clean_word
KeptCharWithDigits(c) == IsAsciiLetter(c) \/ c \in {"-", "'"} \/ c \in DigitSet
KeptChar(c) == IsAsciiLetter(c) \/ c \in {"-", "'"}

\* re.sub(r"[^A-Za-z\-\']", "", w or "").strip()
clean_word(s) == Strip(SelectSeq(s, KeptChar))

\* Python's < on str: lexicographic by code point
StrLess(a, b) ==
    \E k \in 1..(Len(b)) :
        /\ k <= Len(a) + 1
        /\ \A j \in 1..(k-1) : a[j] = b[j]
        /\ \/ k = Len(a) + 1
           \/ k <= Len(a) /\ CharOrd(a[k]) < CharOrd(b[k])

RECURSIVE SortedSeq(_)
\* sorted(S) for a set S of strings
SortedSeq(S) ==
    IF S = {} THEN <<>>
    ELSE LET m == CHOOSE x \in S : \A y \in S \ {x} : StrLess(x, y)
         IN  <<m>> \o SortedSeq(S \ {m})

----------------------------------------------------------------------------
(* Roots cheat sheet and ROOT_REGEX *)

\* the keys of COMMON_ROOTS in the order of the dict literal
COMMON_ROOTS ==
    << <<"p","h","o","n","o">>,
       <<"p","h","o","t","o">>,
       <<"t","e","l","e">>,
       <<"g","e","o">>,
       <<"a","u","t","o">>,
       <<"c","h","r","o","n","o">>,
       <<"m","i","c","r","o">>,
       <<"m","a","c","r","o">>,
       <<"g","r","a","p","h">>,
       <<"b","i","o">>,
       <<"p","s","y","c","h","o">>,
       <<"h","y","d","r","o">>,
       <<"l","o","g","o","s">>,
       <<"p","o","r","t">>,
       <<"s","c","r","i","b">>,
       <<"s","c","r","i","p","t">>,
       <<"s","p","e","c","t">>,
       <<"v","i","d">>,
       <<"v","i","s">>,
       <<"d","i","c","t">>,
       <<"j","e","c","t">>,
       <<"r","u","p","t">>,
       <<"c","r","e","d">>,
       <<"t","e","r","r","a">>,
       <<"a","q","u","a">>,
       <<"b","e","n","e">>,
       <<"m","a","l">>,
       <<"m","a","t","e","r">>,
       <<"p","a","t","e","r">>,
       <<"u","r","b">>,
       <<"v","a","c">>,
       <<"v","o","c">>,
       <<"a","n","n">>,
       <<"m","o","r","t">>,
       <<"p","r","e">>,
       <<"r","e">>,
       <<"u","n">>,
       <<"m","i","s">>,
       <<"a","n","t","i">>,
       <<"s","u","b">>,
       <<"i","n","t","e","r">>,
       <<"t","r","a","n","s">>,
       <<"t","r","i">>,
       <<"f","u","l">>,
       <<"l","e","s","s">>,
       <<"o","l","o","g","y">>,
       <<"i","s","t">> >>

RootKeys == Range(COMMON_ROOTS)

RECURSIVE InsertByLenDesc(_, _)
\* x placed after every element at least as long (the sort is stable)
InsertByLenDesc(sorted, x) ==
    IF sorted = <<>> THEN <<x>>
    ELSE IF Len(Head(sorted)) >= Len(x)
         THEN <<Head(sorted)>> \o InsertByLenDesc(Tail(sorted), x)
         ELSE <<x>> \o sorted

RECURSIVE SortByLenDesc(_, _)
\* sorted(keys, key=len, reverse=True)
SortByLenDesc(keys, acc) ==
    IF keys = <<>> THEN acc
    ELSE SortByLenDesc(Tail(keys), InsertByLenDesc(acc, Head(keys)))

\* the alternatives of ROOT_REGEX, in the order the regex tries them
ROOT_REGEX == SortByLenDesc(COMMON_ROOTS, <<>>)

\* pattern p matches s at position i, case-sensitively
MatchesAtCaseSensitive(p, s, i) ==
    /\ i + Len(p) - 1 <= Len(s)
    /\ \A k \in 1..Len(p) : s[i + k - 1] = p[k]

\* pattern p matches s at position i under re.IGNORECASE
MatchesAt(p, s, i) ==
    /\ i + Len(p) - 1 <= Len(s)
    /\ \A k \in 1..Len(p) : LowerChar(s[i + k - 1]) = LowerChar(p[k])

\* index of the first alternative of ROOT_REGEX that matches at i, or 0
FirstAlternative(s, i) ==
    LET hit == { a \in 1..Len(ROOT_REGEX) : MatchesAt(ROOT_REGEX[a], s, i) }
    IN  IF hit = {} THEN 0 ELSE CHOOSE a \in hit : \A b \in hit : a <= b

\* where the scan resumes after a match of length n at pos
ResumeOverlapping(pos, n) == pos + 1
ResumeAfter(pos, n) == pos + n

RECURSIVE finditer(_, _)
\* ROOT_REGEX.finditer(s) from pos: leftmost, non-overlapping matches
finditer(s, pos) ==
    IF pos > Len(s) THEN <<>>
    ELSE LET a == FirstAlternative(s, pos)
         IN  IF a = 0 THEN finditer(s, pos + 1)
             ELSE LET n == Len(ROOT_REGEX[a])
                  IN  <<[start |-> pos, group |-> SubSeq(s, pos, pos + n - 1)]>>
                      \o finditer(s, ResumeAfter(pos, n))

\* sorted(set(m.group(0).lower() for m in ROOT_REGEX.finditer(w)))
FindRoots(s) ==
    LET ms == finditer(s, 1)
    IN  SortedSeq({ Lower(ms[i].group) : i \in 1..Len(ms) })

----------------------------------------------------------------------------
(* extract_etymology_sections *)

\* A parsed document is the sequence of the children of one parent, each
\* [name |-> tag name, text |-> get_text(" ", strip=True)].
HeadingTags == {"h1", "h2", "h3", "h4", "h5", "h6"}

\* int(name[1])
TagLevel(name) ==
    CASE name = "h1" -> 1 [] name = "h2" -> 2 [] name = "h3" -> 3
      [] name = "h4" -> 4 [] name = "h5" -> 5 [] name = "h6" -> 6

\* the tags soup.find_all and the sibling loop look for
ScannedHeadings == {"h2", "h3", "h4"}

\* the tags whose text is collected
ContentTags == {"p", "ul", "ol", "dl"}

IsWordChar(c) == IsAsciiLetter(c) \/ c \in DigitSet \/ c = "_"

EtymologyWord == <<"E","t","y","m","o","l","o","g","y">>

\* re.search(r"\bEtymology\b", heading_text, re.IGNORECASE)
HeadingMatches(t) ==
    \E i \in 1..Len(t) :
        /\ MatchesAt(EtymologyWord, t, i)
        /\ i = 1 \/ ~IsWordChar(t[i - 1])
        /\ i + Len(EtymologyWord) > Len(t) \/ ~IsWordChar(t[i + Len(EtymologyWord)])

RECURSIVE Join(_, _)
\* sep.join(texts)
Join(texts, sep) ==
    IF texts = <<>> THEN <<>>
    ELSE IF Len(texts) = 1 THEN texts[1]
    ELSE texts[1] \o sep \o Join(Tail(texts), sep)

BlankLine == <<"\n", "\n">>

\* the sibling loop breaking at every scanned heading
StopsAtAnyHeading(lvl, current_level) == TRUE
\* the sibling loop breaking only at a heading strictly above
StopsAtStrictlyHigher(lvl, current_level) == lvl < current_level
\* whether the sibling loop breaks at a scanned heading of level lvl
StopsAt(lvl, current_level) == lvl <= current_level

RECURSIVE CollectSiblings(_, _, _, _)
\* the loop over h.next_siblings from block j on, texts collected so far
CollectSiblings(d, j, current_level, texts) ==
    IF j > Len(d) THEN texts
    ELSE LET name == d[j].name
         IN  IF name \in ScannedHeadings /\ StopsAt(TagLevel(name), current_level)
             THEN texts
             ELSE CollectSiblings(d, j + 1, current_level,
                      IF name \in ContentTags THEN Append(texts, d[j].text) ELSE texts)

RECURSIVE ExtractFrom(_, _, _)
\* the loop over soup.find_all(["h2", "h3", "h4"]) from block i on
ExtractFrom(d, i, out) ==
    IF i > Len(d) THEN out
    ELSE IF d[i].name \in ScannedHeadings /\ HeadingMatches(d[i].text)
         THEN LET texts == CollectSiblings(d, i + 1, TagLevel(d[i].name), <<>>)
              IN  ExtractFrom(d, i + 1,
                      IF texts # <<>>
                      THEN Append(out, [heading |-> d[i].text,
                                        text |-> Join(texts, BlankLine)])
                      ELSE out)
         ELSE ExtractFrom(d, i + 1, out)

extract_etymology_sections(d) == ExtractFrom(d, 1, <<>>)

----------------------------------------------------------------------------
(* Inputs of the root matcher alone and of the section extractor alone *)

RECURSIVE SeqsUpTo(_, _)
\* every sequence over S of length at most n
SeqsUpTo(S, n) ==
    IF n = 0 THEN {<<>>}
    ELSE LET shorter == SeqsUpTo(S, n - 1)
         IN  shorter \cup { Append(s, x) : s \in shorter, x \in S }

\* letters of "pre", "re", "un", "ist", "tri", "inter", "rupt", two of them
\* also in upper case, and the hyphen clean_word keeps
RootAlphabet == {"p", "r", "e", "u", "n", "i", "s", "t", "R", "E", "-"}

RootWords == SeqsUpTo(RootAlphabet, MaxWordLen)

EtymologyOne == <<"E","t","y","m","o","l","o","g","y"," ","1">>
Pronunciation == <<"P","r","o","n","u","n","c","i","a","t","i","o","n">>
Etymologies == <<"E","t","y","m","o","l","o","g","i","e","s">>
FolkEtymology == <<"F","o","l","k","-","e","t","y","m","o","l","o","g","y">>

DocBlocks ==
    [name : {"h1", "h2", "h3"}, text : {EtymologyOne, Pronunciation}]
    \cup { [name |-> "h2", text |-> Etymologies],
           [name |-> "h4", text |-> FolkEtymology],
           [name |-> "p", text |-> <<"a">>],
           [name |-> "ul", text |-> <<"b">>],
           [name |-> "div", text |-> <<"c">>] }

Docs == SeqsUpTo(DocBlocks, MaxBlocks)

----------------------------------------------------------------------------
(* CSV load/save helpers and the local database *)

\* An optional value: <<>> is None, <<v>> is the value v.
None == <<>>
Some(v) == <<v>>

\* A csv.DictReader record is [word, etymology, notes]; word is None when the
\* row has no value under the "word" header.

RECURSIVE load_db_from_path(_)
\* the rows appended for the records r with r.get("word") truthy, fields
\* stripped; a missing file gives the same rows as a file with no record
load_db_from_path(records) ==
    IF records = <<>> THEN <<>>
    ELSE LET r == Head(records)
             rest == load_db_from_path(Tail(records))
         IN  IF r.word # None /\ r.word[1] # <<>>
             THEN <<[word |-> Strip(r.word[1]),
                     etymology |-> Strip(r.etymology),
                     notes |-> Strip(r.notes)]>> \o rest
             ELSE rest

\* the records a later csv.DictReader yields from what csv.DictWriter wrote
save_db_to_path(rows) ==
    [i \in 1..Len(rows) |-> [word |-> Some(rows[i].word),
                             etymology |-> rows[i].etymology,
                             notes |-> rows[i].notes]]

\* local_map.get(key) for local_map = {r["word"].lower(): r for r in local_rows}:
\* a later row replaces an earlier one under the same key
local_map_get(rows, key) ==
    LET at == { i \in 1..Len(rows) : Lower(rows[i].word) = key }
    IN  IF at = {} THEN None
        ELSE Some(rows[CHOOSE i \in at : \A j \in at : j <= i])

\* local_rows after the upload handler applied new_rows
MergeRows(rows, new_rows, mode) ==
    IF mode = "Replace" THEN new_rows ELSE rows \o new_rows

----------------------------------------------------------------------------
(* Optional online lookup *)

\* A page is the parsed block sequence of the "text" of a parse answer; the
\* empty string parses to no block.  html is None or Some(page).
Truthy(opt) == opt # None /\ opt[1] # <<>>

\* What the Wiktionary API does on one action=parse request: the request
\* raises (network error, timeout, HTTP error status, invalid JSON), or the
\* answer has no "parse" object, or it has the text of the page.
PageWithEtymology ==
    << [name |-> "h3", text |-> EtymologyOne], [name |-> "p", text |-> <<"a">>] >>
PageWithoutEtymology ==
    << [name |-> "h3", text |-> Pronunciation], [name |-> "p", text |-> <<"b">>] >>

ParseAnswers ==
    { [kind |-> "error", page |-> <<>>], [kind |-> "noparse", page |-> <<>>] }
    \cup [kind : {"text"}, page : {<<>>, PageWithEtymology, PageWithoutEtymology}]

\* wiktionary_parse without its try/except
wiktionary_parse_uncaught(net) ==
    IF net.kind = "error" THEN [raised |-> TRUE, value |-> None]
    ELSE IF net.kind = "noparse" THEN [raised |-> FALSE, value |-> None]
    ELSE [raised |-> FALSE, value |-> Some(net.page)]

\* wiktionary_parse(title) for the answer net: the text, or None
wiktionary_parse(net) ==
    IF net.kind = "error" THEN [raised |-> FALSE, value |-> None]
    ELSE IF net.kind = "noparse" THEN [raised |-> FALSE, value |-> None]
    ELSE [raised |-> FALSE, value |-> Some(net.page)]

SearchTitles == { <<"R","E">>, <<"r","e","x">> }

\* What the API does on one action=opensearch request: the request raises,
\* or the answer is no list of two elements, or its data[1] is a title list.
SearchAnswers ==
    { [kind |-> "error", titles |-> <<>>], [kind |-> "nolist", titles |-> <<>>] }
    \cup [kind : {"titles"}, titles : SeqsUpTo(SearchTitles, MaxTitles)]

\* wiktionary_opensearch(word) for the answer net: a title, or None
wiktionary_opensearch(net, s) ==
    IF net.kind = "error" THEN [raised |-> FALSE, value |-> None]
    ELSE LET titles == IF net.kind = "titles" THEN net.titles ELSE <<>>
             exact == { i \in 1..Len(titles) : Lower(titles[i]) = Lower(s) }
         IN  [raised |-> FALSE,
              value |-> IF exact # {}
                        THEN Some(titles[CHOOSE i \in exact : \A j \in exact : i <= j])
                        ELSE IF titles # <<>> THEN Some(titles[1]) ELSE None]

\* fetch_etymology_html: a candidate list with a fourth, upper-cased title
CandidatesWithUpper(s) ==
    <<Lower(s), Capitalize(s), s, [i \in 1..Len(s) |-> UpperChar(s[i])]>>
\* fetch_etymology_html: candidates in the order capitalized, lower, verbatim
CandidatesCapitalizedFirst(s) == <<Capitalize(s), Lower(s), s>>
\* fetch_etymology_html: [word.lower(), word.capitalize(), word]
Candidates(s) == <<Lower(s), Capitalize(s), s>>

\* the test `if use_online:` with the toggle ignored
TryOnlineAlways(online) == TRUE
\* the test `if use_online:`
TryOnline(online) == online

----------------------------------------------------------------------------
(* The script: one run per user interaction *)

TypedWords ==
    { <<>>, <<"1">>, <<"r","e">>, <<"R","e">>, <<"r"," ","e">>,
      <<"u","n","R","e">>, <<"x">> }

\* The records a CSV may hold: one without a word, one whose word is only
\* whitespace, and the words "re", "Re " and "r e" with and without etymology.
CsvRecords ==
    { [word |-> None, etymology |-> <<"x">>, notes |-> <<>>],
      [word |-> Some(<<" ">>), etymology |-> <<"x">>, notes |-> <<>>],
      [word |-> Some(<<"r","e">>), etymology |-> <<"x">>, notes |-> <<"n">>],
      [word |-> Some(<<"R","e"," ">>), etymology |-> <<" ">>, notes |-> <<>>],
      [word |-> Some(<<"r"," ","e">>), etymology |-> <<"x">>, notes |-> <<>>] }

CsvFiles == SeqsUpTo(CsvRecords, MaxRows)

Init ==
    /\ dbFile \in CsvFiles
    /\ local_rows = load_db_from_path(dbFile)
    /\ word = <<>>
    /\ use_online = FALSE
    /\ w = <<>>
    /\ pc = "idle"
    /\ cand = 0
    /\ outcome = "None"
    /\ found_row = None
    /\ matches = <<>>
    /\ calls = <<>>
    /\ html = None
    /\ title = None
    /\ sections = <<>>
    /\ rword = <<>> /\ rhits = <<>> /\ rdone = FALSE
    /\ doc = <<>> /\ doc_sections = <<>> /\ xdone = FALSE

\* the state a run starts from: nothing of the previous run is shown
Cleared ==
    /\ cand' = 0
    /\ found_row' = None
    /\ matches' = <<>>
    /\ calls' = <<>>
    /\ html' = None
    /\ title' = None
    /\ sections' = <<>>

\* A CSV that decodes as UTF-8 is uploaded: the run loads the database, parses
\* the upload with the loop of load_db_from_path, applies it, saves and stops.
Upload(records, mode) ==
    /\ pc = "idle"
    /\ LET rows == load_db_from_path(dbFile)
           new_rows == load_db_from_path(records)
           merged == MergeRows(rows, new_rows, mode)
       IN  /\ Len(merged) <= MaxRows
           /\ local_rows' = merged
           /\ dbFile' = save_db_to_path(merged)
    /\ outcome' = "Saved"
    /\ word' = <<>> /\ w' = <<>> /\ use_online' = FALSE
    /\ pc' = "idle"
    /\ Cleared
    /\ UNCHANGED <<rootVars, extractVars>>

\* "Explain origins" is clicked with the text raw and the toggle online: the
\* run up to the first network call, or to its end when it makes none.
Explain(raw, online) ==
    /\ pc = "idle"
    /\ LET rows == load_db_from_path(dbFile)
           cw == clean_word(raw)
           row == local_map_get(rows, Lower(cw))
       IN  /\ local_rows' = rows
           /\ word' = raw
           /\ use_online' = online
           /\ w' = cw
           /\ calls' = <<>> /\ html' = None /\ title' = None /\ sections' = <<>>
           /\ IF cw = <<>>
              THEN /\ outcome' = "InvalidInput"
                   /\ found_row' = None /\ matches' = <<>>
                   /\ pc' = "idle" /\ cand' = 0
              ELSE IF row # None /\ row[1].etymology # <<>>
              THEN /\ outcome' = "FoundLocal"
                   /\ found_row' = row /\ matches' = <<>>
                   /\ pc' = "idle" /\ cand' = 0
              ELSE /\ found_row' = None
                   /\ matches' = FindRoots(cw)
                   /\ IF TryOnline(online)
                      THEN /\ outcome' = "Pending" /\ pc' = "parse" /\ cand' = 1
                      ELSE /\ outcome' = "HeuristicOnly" /\ pc' = "idle" /\ cand' = 0
    /\ UNCHANGED <<dbFile, rootVars, extractVars>>

\* lines 289-302 once fetch_etymology_html returned (h, t)
Finish(h, t) ==
    /\ pc' = "idle"
    /\ cand' = 0
    /\ html' = h
    /\ title' = t
    /\ IF ~Truthy(h)
       THEN outcome' = "RemoteNotFound" /\ sections' = <<>>
       ELSE outcome' = "RemoteFound" /\ sections' = extract_etymology_sections(h[1])

\* an exception leaves fetch_etymology_html and the run
Propagate ==
    /\ pc' = "idle"
    /\ cand' = 0
    /\ outcome' = "Uncaught"
    /\ UNCHANGED <<html, title, sections>>

\* fetch_etymology_html: wiktionary_parse(cand) in the for loop
FetchCandidate(net) ==
    /\ pc = "parse"
    /\ LET c == Candidates(w)[cand]
           ret == wiktionary_parse(net)
       IN  /\ calls' = Append(calls, [fn |-> "parse", arg |-> c,
                                      found |-> Truthy(ret.value), ret |-> None])
           /\ IF ret.raised THEN Propagate
              ELSE IF Truthy(ret.value) THEN Finish(ret.value, Some(c))
              ELSE IF cand < Len(Candidates(w))
              THEN /\ cand' = cand + 1
                   /\ UNCHANGED <<pc, outcome, html, title, sections>>
              ELSE /\ pc' = "opensearch" /\ cand' = 0
                   /\ UNCHANGED <<outcome, html, title, sections>>
    /\ UNCHANGED <<dbFile, local_rows, word, use_online, w, found_row, matches,
                   rootVars, extractVars>>

\* fetch_etymology_html: wiktionary_opensearch(word) after the for loop
Search(net) ==
    /\ pc = "opensearch"
    /\ LET ret == wiktionary_opensearch(net, w)
       IN  /\ calls' = Append(calls, [fn |-> "opensearch", arg |-> w,
                                      found |-> Truthy(ret.value), ret |-> ret.value])
           /\ IF ret.raised THEN Propagate
              ELSE IF Truthy(ret.value)
              THEN /\ pc' = "retry" /\ title' = ret.value
                   /\ UNCHANGED <<cand, outcome, html, sections>>
              ELSE Finish(None, None)
    /\ UNCHANGED <<dbFile, local_rows, word, use_online, w, found_row, matches,
                   rootVars, extractVars>>

\* fetch_etymology_html: wiktionary_parse(title) of the title searched
FetchTitle(net) ==
    /\ pc = "retry"
    /\ LET ret == wiktionary_parse(net)
       IN  /\ calls' = Append(calls, [fn |-> "parse", arg |-> title[1],
                                      found |-> Truthy(ret.value), ret |-> None])
           /\ IF ret.raised THEN Propagate
              ELSE IF Truthy(ret.value) THEN Finish(ret.value, title)
              ELSE Finish(None, None)
    /\ UNCHANGED <<dbFile, local_rows, word, use_online, w, found_row, matches,
                   rootVars, extractVars>>

Next ==
    \/ \E records \in CsvFiles, mode \in {"Append", "Replace"} : Upload(records, mode)
    \/ \E raw \in TypedWords, online \in BOOLEAN : Explain(raw, online)
    \/ \E net \in ParseAnswers : FetchCandidate(net)
    \/ \E net \in SearchAnswers : Search(net)
    \/ \E net \in ParseAnswers : FetchTitle(net)

Spec == Init /\ [][Next]_vars

\* The same script while the network is down: every request raises.
NetDown(net) == net.kind = "error"

NextNetDown ==
    \/ \E records \in CsvFiles, mode \in {"Append", "Replace"} : Upload(records, mode)
    \/ \E raw \in TypedWords, online \in BOOLEAN : Explain(raw, online)
    \/ \E net \in ParseAnswers : NetDown(net) /\ FetchCandidate(net)
    \/ \E net \in SearchAnswers : NetDown(net) /\ Search(net)

SpecNetDown == Init /\ [][NextNetDown]_vars

----------------------------------------------------------------------------
(* The root matcher alone *)

InitRoots ==
    /\ rword \in RootWords
    /\ rhits = <<>>
    /\ rdone = FALSE
    /\ dbFile = <<>> /\ local_rows = <<>> /\ word = <<>> /\ use_online = FALSE
    /\ w = <<>> /\ pc = "idle" /\ cand = 0 /\ outcome = "None"
    /\ found_row = None /\ matches = <<>> /\ calls = <<>> /\ html = None
    /\ title = None /\ sections = <<>>
    /\ doc = <<>> /\ doc_sections = <<>> /\ xdone = FALSE

MatchRoots ==
    /\ ~rdone
    /\ rhits' = FindRoots(rword)
    /\ rdone' = TRUE
    /\ UNCHANGED <<rword, pipelineVars, extractVars>>

NextRoots == MatchRoots

SpecRoots == InitRoots /\ [][NextRoots]_vars

----------------------------------------------------------------------------
(* The section extractor alone *)

InitExtract ==
    /\ doc \in Docs
    /\ doc_sections = <<>>
    /\ xdone = FALSE
    /\ dbFile = <<>> /\ local_rows = <<>> /\ word = <<>> /\ use_online = FALSE
    /\ w = <<>> /\ pc = "idle" /\ cand = 0 /\ outcome = "None"
    /\ found_row = None /\ matches = <<>> /\ calls = <<>> /\ html = None
    /\ title = None /\ sections = <<>>
    /\ rword = <<>> /\ rhits = <<>> /\ rdone = FALSE

ExtractSections ==
    /\ ~xdone
    /\ doc_sections' = extract_etymology_sections(doc)
    /\ xdone' = TRUE
    /\ UNCHANGED <<doc, pipelineVars, rootVars>>

NextExtract == ExtractSections

SpecExtract == InitExtract /\ [][NextExtract]_vars

----------------------------------------------------------------------------
(* Properties of the resolution pipeline *)

\* the last run was a resolution (an "Explain origins" click)
Resolved == outcome \notin {"None", "Saved"}

\* no entry of the dataset has the word s, compared case-insensitively
AbsentFromDataset(s) ==
    \A i \in 1..Len(local_rows) : Lower(local_rows[i].word) # Lower(s)

AsciiLetters == Range(LowerChars) \cup Range(UpperChars)

\* C1 (as claimed): for every entry of the dataset whose etymology is
\* non-empty, a finished resolution of that entry's word is FoundLocal and
\* shows exactly that entry, whatever the online flag.  Entries whose word
\* is empty are left out here: they exist only through the defect of C9.
C1_FoundLocalForEveryEntry ==
    \A i \in 1..Len(local_rows) :
        ( /\ Resolved
          /\ pc = "idle"
          /\ local_rows[i].word # <<>>
          /\ local_rows[i].etymology # <<>>
          /\ word = local_rows[i].word )
        => (outcome = "FoundLocal" /\ found_row = Some(local_rows[i]))

\* C2: a resolution with the online flag false makes no network call at any
\* point, and for a word (a non-empty cleaned input) absent from the dataset
\* it ends in HeuristicOnly carrying the root match set (empty or not).
C2_OfflineNoNetwork ==
    (Resolved /\ ~use_online)
    => /\ calls = <<>>
       /\ pc = "idle"
       /\ html = None
       /\ (w # <<>> /\ AbsentFromDataset(w))
          => (outcome = "HeuristicOnly" /\ matches = FindRoots(w))

\* C2 witness: an offline resolution of an absent word with no root at all
C2_Witness ==
    /\ outcome = "HeuristicOnly"
    /\ ~use_online
    /\ local_rows # <<>>
    /\ AbsentFromDataset(w)
    /\ matches = <<>>

\* C3: with every request raising, an online resolution of a word not found
\* locally never raises to the caller; it ends in RemoteNotFound and still
\* carries the root match set.
C3_NetDownDegrades ==
    /\ outcome # "Uncaught"
    /\ ( /\ pc = "idle"
         /\ use_online
         /\ Resolved
         /\ outcome \notin {"InvalidInput", "FoundLocal"} )
       => (outcome = "RemoteNotFound" /\ html = None /\ matches = FindRoots(w))

\* C3 witness: all four requests raised and the hints are still there
C3_Witness ==
    /\ outcome = "RemoteNotFound"
    /\ Len(calls) = 4
    /\ matches # <<>>

\* C4: page fetches go lower-cased, capitalized, verbatim, each only after the
\* earlier ones failed; the first that yields a page ends the resolver; the
\* title search comes fourth, only after three failed fetches; a title it
\* returns is fetched once, and the resolver then stops.
C4_CallOrder ==
    /\ Len(calls) <= 5
    /\ \A k \in 1..Len(calls) :
        /\ k <= 3 =>
             /\ calls[k].fn = "parse"
             /\ calls[k].arg = <<Lower(w), Capitalize(w), w>>[k]
             /\ \A j \in 1..(k - 1) : ~calls[j].found
             /\ calls[k].found =>
                  /\ Len(calls) = k
                  /\ pc = "idle"
                  /\ title = Some(calls[k].arg)
                  /\ Truthy(html)
        /\ k = 4 =>
             /\ calls[k].fn = "opensearch"
             /\ calls[k].arg = w
             /\ \A j \in 1..3 : ~calls[j].found
             /\ calls[k].ret = None => (Len(calls) = 4 /\ pc = "idle")
        /\ k = 5 =>
             /\ calls[k].fn = "parse"
             /\ calls[4].ret # None
             /\ calls[k].arg = calls[4].ret[1]
             /\ pc = "idle"

\* C4 witness: three distinct candidates failed, the search gave a title and
\* its page was found
C4_Witness ==
    /\ Len(calls) = 5
    /\ calls[5].found
    /\ outcome = "RemoteFound"
    /\ Lower(w) # w /\ Capitalize(w) # w /\ Lower(w) # Capitalize(w)

\* C8: when no character of the raw input is an ASCII letter, a hyphen or an
\* apostrophe, the resolution is InvalidInput and nothing else: no database
\* row, no root hints, no network call, whatever the online flag.
C8_EmptyIsInvalid ==
    ( /\ Resolved
      /\ \A i \in 1..Len(word) : word[i] \notin AsciiLetters \cup {"-", "'"} )
    => /\ outcome = "InvalidInput"
       /\ pc = "idle"
       /\ found_row = None
       /\ matches = <<>>
       /\ calls = <<>>
       /\ html = None
       /\ sections = <<>>

\* C8 witness: a non-empty input is cleaned to nothing, online flag on
C8_Witness ==
    /\ outcome = "InvalidInput"
    /\ word # <<>>
    /\ use_online

\* C9 (as claimed): every entry of the loaded or uploaded dataset has a word
\* that is non-empty after trimming.
C9_WordsNonEmpty ==
    \A i \in 1..Len(local_rows) : Strip(local_rows[i].word) # <<>>

\* C10 (as claimed): a resolution makes at most two network calls.
C10_AtMostTwoCalls == Len(calls) <= 2

\* C10 (amended): a resolution makes at most five network calls, three
\* candidate fetches, one title search and one fetch of the title searched.
C10_AtMostFiveCalls ==
    /\ Len(calls) <= 5
    /\ Cardinality({ k \in 1..Len(calls) : calls[k].fn = "opensearch" }) <= 1
    /\ Cardinality({ k \in 1..Len(calls) : calls[k].fn = "parse" }) <= 4

\* C10 witness: all five calls were made and the last one failed too
C10_Witness ==
    /\ Len(calls) = 5
    /\ ~calls[5].found
    /\ outcome = "RemoteNotFound"

----------------------------------------------------------------------------
(* Properties of the root matcher *)

\* pattern p occurs in s at position i, compared case-insensitively
OccursAt(p, s, i) ==
    /\ i >= 1
    /\ i + Len(p) - 1 <= Len(s)
    /\ Lower(SubSeq(s, i, i + Len(p) - 1)) = Lower(p)

Occurs(p, s) == \E i \in 1..Len(s) : OccursAt(p, s, i)

\* the positions i..i+m-1 and k..k+n-1 have a position in common
Overlap(i, m, k, n) == i < k + n /\ k < i + m

StrictlySorted(hits) ==
    \A k \in 1..(Len(hits) - 1) : StrLess(hits[k], hits[k + 1])

\* C7 (as claimed): every lexicon pattern that occurs in the word, also one
\* overlapping another pattern's occurrence, is in the result; the result
\* is sorted and has no duplicates.
C7_EveryOccurrenceReported ==
    rdone =>
        /\ \A p \in RootKeys : Occurs(p, rword) => Lower(p) \in Range(rhits)
        /\ StrictlySorted(rhits)

\* C7 (amended): every reported pattern is a lexicon key that occurs in the
\* word; every occurrence of a lexicon pattern is reported or overlaps an
\* occurrence of a reported pattern; the result is sorted, no duplicates.
C7_OccurrencesCovered ==
    rdone =>
        /\ \A h \in Range(rhits) : h \in RootKeys /\ Occurs(h, rword)
        /\ \A p \in RootKeys : \A i \in 1..Len(rword) :
             OccursAt(p, rword, i) =>
                \E q \in Range(rhits) : \E k \in 1..Len(rword) :
                    /\ OccursAt(q, rword, k)
                    /\ Overlap(i, Len(p), k, Len(q))
        /\ StrictlySorted(rhits)

\* C7 witness: a pattern is reported and another one, which occurs in the
\* word overlapping it, is not
C7_Witness ==
    /\ rdone
    /\ rhits # <<>>
    /\ \E p \in RootKeys : Occurs(p, rword) /\ p \notin Range(rhits)

----------
(* Properties of the section extractor *)

\* the k-th smallest element of a set of integers
KthSmallest(S, k) == CHOOSE i \in S : Cardinality({ j \in S : j < i }) = k - 1

\* the first block after i that is a heading among tags of level at most
\* that of block i, or Len(d) + 1
SectionEnd(d, i, tags) ==
    LET stops == { j \in (i + 1)..Len(d) :
                     d[j].name \in tags /\ TagLevel(d[j].name) <= TagLevel(d[i].name) }
    IN  IF stops = {} THEN Len(d) + 1 ELSE CHOOSE j \in stops : \A k \in stops : j <= k

\* the paragraph, list and definition-list blocks between i and its end
BodyBlocks(d, i, tags) ==
    { j \in (i + 1)..(SectionEnd(d, i, tags) - 1) : d[j].name \in {"p", "ul", "ol", "dl"} }

TextsOf(d, B) == [k \in 1..Cardinality(B) |-> d[KthSmallest(B, k)].text]

\* the sections claimed when the headings among tags count as headings
ClaimedSections(d, tags) ==
    LET trig == { i \in 1..Len(d) :
                    /\ d[i].name \in tags
                    /\ HeadingMatches(d[i].text)
                    /\ BodyBlocks(d, i, tags) # {} }
    IN  [k \in 1..Cardinality(trig) |->
            LET i == KthSmallest(trig, k)
            IN  [heading |-> d[i].text,
                 text |-> Join(TextsOf(d, BodyBlocks(d, i, tags)), BlankLine)]]

\* C5 (as claimed): headings of any level open and close sections.
C5_SectionsAnyLevel ==
    xdone => doc_sections = ClaimedSections(doc, HeadingTags)

\* C5 (amended): for every h2, h3 or h4 heading whose text contains the word
\* "Etymology", the body is the text of the following sibling p/ul/ol/dl
\* blocks, in order, joined by a blank line, up to the first following
\* h2, h3 or h4 sibling of level at most the heading's; a heading with no
\* such block gives no section; sections come in document order.
C5_SectionsH2ToH4 ==
    xdone => doc_sections = ClaimedSections(doc, {"h2", "h3", "h4"})

\* C5 witness: an h4 "Folk-etymology" section of one list that ends at an h3
\* heading, whose paragraph is left out
C5_Witness ==
    /\ xdone
    /\ Len(doc) = 4
    /\ doc[1] = [name |-> "h4", text |-> FolkEtymology]
    /\ doc[2].name = "ul" /\ doc[3].name = "h3" /\ doc[4].name = "p"
    /\ doc_sections = << [heading |-> FolkEtymology, text |-> <<"b">>] >>

\* d is an "Etymology 1" heading among tags, then paragraphs up to block k,
\* a heading among tags that is not an etymology heading, then content blocks
EtymologyThenHeading(d, k, tags) ==
    /\ Len(d) >= 4
    /\ k \in 3..(Len(d) - 1)
    /\ d[1].name \in tags /\ d[1].text = EtymologyOne
    /\ \A j \in 2..(k - 1) : d[j].name = "p"
    /\ d[k].name \in tags /\ ~HeadingMatches(d[k].text)
    /\ \A j \in (k + 1)..Len(d) : d[j].name \in {"p", "ul", "ol", "dl"}

OnlySection(d, from, to) ==
    << [heading |-> d[1].text,
        text |-> Join([j \in 1..(to - from + 1) |-> d[from + j - 1].text], BlankLine)] >>

\* C6 (as claimed): when the heading after the paragraphs is a sub-heading of
\* "Etymology 1" (a deeper level), the only section is the paragraphs before it.
C6_StopsAtSubHeading ==
    xdone =>
        \A k \in 1..Len(doc) :
            ( /\ EtymologyThenHeading(doc, k, HeadingTags)
              /\ TagLevel(doc[k].name) > TagLevel(doc[1].name) )
            => doc_sections = OnlySection(doc, 2, k - 1)

\* C6 (amended): with both headings among h2, h3, h4: when the heading after
\* the paragraphs has a level at most that of "Etymology 1", the only section
\* is the paragraphs before it; when it is a deeper sub-heading, the body also
\* holds the blocks that follow the sub-heading.
C6_StopsAtSameOrHigherHeading ==
    xdone =>
        \A k \in 1..Len(doc) :
            EtymologyThenHeading(doc, k, {"h2", "h3", "h4"}) =>
                IF TagLevel(doc[k].name) <= TagLevel(doc[1].name)
                THEN doc_sections = OnlySection(doc, 2, k - 1)
                ELSE doc_sections =
                        << [heading |-> doc[1].text,
                            text |-> Join([j \in 1..(Len(doc) - 2) |->
                                             doc[IF j < k - 1 THEN j + 1 ELSE j + 2].text],
                                          BlankLine)] >>

\* C6 witness: "Etymology 1", a paragraph, a heading of the same or a higher
\* level, then its own content
C6_Witness ==
    /\ xdone
    /\ EtymologyThenHeading(doc, 3, {"h2", "h3", "h4"})
    /\ TagLevel(doc[3].name) <= TagLevel(doc[1].name)
    /\ Len(doc_sections) = 1

====
